---- MODULE Spec2Model ----
(***************************************************************************)
(* Model of the changelog generator atercattus/changeloger.                *)
(*                                                                         *)
(* The repository holds two variants of the same program:                  *)
(*   "tagdelta" : src/main.go          (last tag .. branch, git log,       *)
(*                                      one commits/<sha>/pulls call per   *)
(*                                      merge commit)                      *)
(*   "prlist"   : src/unnamed/part_000 (one pulls?state=closed listing)    *)
(*                                                                         *)
(* Text is modelled by TLA+ strings (Len, \o and SubSeq act on them), a    *)
(* pull-request title by the sequence of its runes (code points), since    *)
(* title() works on the first decoded rune.                                *)
(***************************************************************************)
EXTENDS Integers, Sequences, FiniteSets, TLC

VARIABLES
    variant,     \* which of the two programs runs
    pc,          \* position inside generate()/main(), or inside a unit run
    mainBranch,  \* branch asked for with --main-branch ("main" when not given)
    origin,      \* output of `git config --get remote.origin.url`
    apiUrl,      \* package variable apiUrl
    err,         \* error returned so far ("" is nil)
    tagList,     \* output lines of `git tag`
    lastTag,     \* result of getLastGitTag
    logLines,    \* output lines of `git log --merges ...`
    parsed,      \* merges as appended by the scan loop, before sort.Slice
    sorted,      \* merges right after sort.Slice (tagdelta)
    merges,      \* the []MergeInfo threaded through the pipeline
    idx,         \* loop index of populateMergeWithInfo
    apiResps,    \* REST responses received so far, in call order
    calls,       \* external calls issued so far (git subprocesses, HTTP)
    stdout,      \* entries written to standard output
    exitCode,    \* process exit status (-1 while running)
    titleIn,     \* input of a title() run
    titleOut     \* results of successive title() applications

pipeVars == <<mainBranch, origin, apiUrl, err, tagList, lastTag, logLines,
              parsed, sorted, merges, idx, apiResps, calls, stdout, exitCode>>
titleVars == <<titleIn, titleOut>>
vars == <<variant, pc, pipeVars, titleVars>>

Variants == {"tagdelta", "prlist"}

(***************************************************************************)
(* Bounds of the model.                                                    *)
(***************************************************************************)
MaxTitleLen == 3

(***************************************************************************)
(* String helpers (Go's strings package, on TLA+ strings).                 *)
(***************************************************************************)
CharAt(s, i) == SubSeq(s, i, i)

HasPrefix(s, p) == Len(s) >= Len(p) /\ SubSeq(s, 1, Len(p)) = p

HasSuffix(s, p) == Len(s) >= Len(p) /\ SubSeq(s, Len(s) - Len(p) + 1, Len(s)) = p

TrimSuffix(s, p) == IF HasSuffix(s, p) THEN SubSeq(s, 1, Len(s) - Len(p)) ELSE s

\* strings.Index: first position (1-based) at which sub occurs in s, 0 if none
Index(s, sub) ==
    LET hits == {i \in 1..(Len(s) - Len(sub) + 1) : SubSeq(s, i, i + Len(sub) - 1) = sub}
    IN IF hits = {} THEN 0 ELSE CHOOSE i \in hits : \A j \in hits : i <= j

Contains(s, sub) == Index(s, sub) # 0

Letters ==
    {"a","b","c","d","e","f","g","h","i","j","k","l","m","n","o","p","q","r","s",
     "t","u","v","w","x","y","z","A","B","C","D","E","F","G","H","I","J","K","L",
     "M","N","O","P","Q","R","S","T","U","V","W","X","Y","Z"}

Digits == {"0","1","2","3","4","5","6","7","8","9"}

\* strings.LastIndex for a one-character sub
LastIndex(s, c) ==
    LET hits == {i \in 1..Len(s) : CharAt(s, i) = c}
    IN IF hits = {} THEN 0 ELSE CHOOSE i \in hits : \A j \in hits : i >= j

AllIn(s, set) == \A i \in 1..Len(s) : CharAt(s, i) \in set

(***************************************************************************)
(* net/url.Parse, for remotes without '?', '#', '%' or control bytes.      *)
(* The result is [ok, host, path]; the code reads Host and Path only.      *)
(***************************************************************************)
\* url.getScheme: position of the ':' ending the scheme, 0 when there is no
\* scheme, -1 for "missing protocol scheme"
RECURSIVE getScheme(_, _)
getScheme(raw, i) ==
    IF i > Len(raw) THEN 0
    ELSE LET c == CharAt(raw, i)
         IN IF c \in Letters THEN getScheme(raw, i + 1)
            ELSE IF c \in Digits \cup {"+", "-", "."}
                 THEN (IF i = 1 THEN 0 ELSE getScheme(raw, i + 1))
            ELSE IF c = ":" THEN (IF i = 1 THEN -1 ELSE i)
            ELSE 0

\* url.parseAuthority / parseHost: the host is what follows the last '@'; a
\* ':' in it must start an all-digit port, which stays part of Host
parseHost(authority) ==
    LET at == LastIndex(authority, "@")
        h == SubSeq(authority, at + 1, Len(authority))
        colon == LastIndex(h, ":")
    IN IF colon # 0 /\ ~AllIn(SubSeq(h, colon + 1, Len(h)), Digits)
       THEN [ok |-> FALSE, host |-> ""]
       ELSE [ok |-> TRUE, host |-> h]

urlParse(raw) ==
    LET bad == [ok |-> FALSE, host |-> "", path |-> ""]
        k == getScheme(raw, 1)
        scheme == IF k > 0 THEN SubSeq(raw, 1, k - 1) ELSE ""
        rest == IF k > 0 THEN SubSeq(raw, k + 1, Len(raw)) ELSE raw
        slash == Index(rest, "/")
        firstSegment == IF slash = 0 THEN rest ELSE SubSeq(rest, 1, slash - 1)
    IN IF raw = "" THEN [ok |-> TRUE, host |-> "", path |-> ""]
       ELSE IF k = -1 THEN bad
       ELSE IF ~HasPrefix(rest, "/")
            THEN (IF scheme # "" THEN [ok |-> TRUE, host |-> "", path |-> ""]  \* opaque
                  ELSE IF Contains(firstSegment, ":") THEN bad
                  ELSE [ok |-> TRUE, host |-> "", path |-> rest])
       ELSE IF HasPrefix(rest, "//") /\ (scheme # "" \/ ~HasPrefix(rest, "///"))
            THEN LET after == SubSeq(rest, 3, Len(rest))
                     cut == Index(after, "/")
                     authority == IF cut = 0 THEN after ELSE SubSeq(after, 1, cut - 1)
                     path == IF cut = 0 THEN "" ELSE SubSeq(after, cut, Len(after))
                     h == parseHost(authority)
                 IN IF h.ok THEN [ok |-> TRUE, host |-> h.host, path |-> path] ELSE bad
       ELSE [ok |-> TRUE, host |-> "", path |-> rest]

(***************************************************************************)
(* gitUrlRegex = ^git@([^:]+):([^/]+)/([^/]+).git$  (part_000 only).       *)
(* The result is the rewritten origin, or the origin itself when the       *)
(* expression does not match.                                              *)
(***************************************************************************)
normalizeGitUrl(o) ==
    LET afterAt == SubSeq(o, 5, Len(o))
        colon == Index(afterAt, ":")
        host == SubSeq(afterAt, 1, colon - 1)
        afterColon == SubSeq(afterAt, colon + 1, Len(afterAt))
        slash == Index(afterColon, "/")
        org == SubSeq(afterColon, 1, slash - 1)
        rem == SubSeq(afterColon, slash + 1, Len(afterColon))
        repo == SubSeq(rem, 1, Len(rem) - 4)
    IN IF /\ HasPrefix(o, "git@")
          /\ colon > 1
          /\ slash > 1
          /\ Len(rem) >= 5
          /\ HasSuffix(rem, "git")
          /\ ~Contains(repo, "/")
       THEN "git://" \o host \o "/" \o org \o "/" \o repo
       ELSE o

\* regexp.MatchString("", s): the empty expression matches every string
matchRepoName(s) == TRUE

(***************************************************************************)
(* setupRepoAPIURL, given the outcome of `git config --get                 *)
(* remote.origin.url`: [ok, out].  Returns the error ("" is nil) and the   *)
(* new value of apiUrl.                                                    *)
(***************************************************************************)
setupRepoAPIURL(v, git, oldApiUrl) ==
    LET o == IF v = "prlist" THEN normalizeGitUrl(git.out) ELSE git.out
        u == urlParse(o)
        orgWithProject == TrimSuffix(u.path, ".git")
    IN IF ~git.ok THEN [err |-> "exit status", apiUrl |-> oldApiUrl]
       ELSE IF ~u.ok THEN [err |-> "url parse", apiUrl |-> oldApiUrl]
       ELSE IF u.host # "github.com"
            THEN [err |-> "only github.com repos are supported", apiUrl |-> oldApiUrl]
       ELSE IF ~matchRepoName(orgWithProject)
            THEN [err |-> "wrong repo name", apiUrl |-> oldApiUrl]
       ELSE [err |-> "",
             apiUrl |-> "https://api.github.com/repos" \o orgWithProject \o "/"]

(***************************************************************************)
(* Decimal text: strconv.Atoi / ParseInt(s, 10, 64) on a digit string.     *)
(***************************************************************************)
DigitVal(c) == Index("0123456789", c) - 1

RECURSIVE DecValue(_)
DecValue(ds) ==
    IF ds = "" THEN 0
    ELSE 10 * DecValue(SubSeq(ds, 1, Len(ds) - 1)) + DigitVal(CharAt(ds, Len(ds)))

RECURSIVE StripZeros(_)
StripZeros(ds) == IF Len(ds) > 1 /\ CharAt(ds, 1) = "0" THEN StripZeros(Tail(ds)) ELSE ds

\* byte-wise order of two strings over the ordered alphabet `order`: -1, 0, 1
RECURSIVE LexCompare(_, _, _)
LexCompare(a, b, order) ==
    IF a = "" /\ b = "" THEN 0
    ELSE IF a = "" THEN -1
    ELSE IF b = "" THEN 1
    ELSE LET x == Index(order, CharAt(a, 1))
             y == Index(order, CharAt(b, 1))
         IN IF x < y THEN -1
            ELSE IF x > y THEN 1
            ELSE LexCompare(Tail(a), Tail(b), order)

AsciiOrder == "-0123456789ABCDEFGHIJKLMNOPQRSTUVWXYZabcdefghijklmnopqrstuvwxyz"

MaxInt64Text == "9223372036854775807"

\* whether the digit string denotes a value of a signed 64-bit int
FitsInt64(ds) ==
    LET n == StripZeros(ds)
    IN \/ Len(n) < Len(MaxInt64Text)
       \/ Len(n) = Len(MaxInt64Text) /\ LexCompare(n, MaxInt64Text, AsciiOrder) <= 0

IsNumber(ds) == ds # "" /\ AllIn(ds, Digits)

\* strings.Split(s, c) for a one-character separator
RECURSIVE Split(_, _)
Split(s, c) ==
    LET i == Index(s, c)
    IN IF i = 0 THEN <<s>>
       ELSE <<SubSeq(s, 1, i - 1)>> \o Split(SubSeq(s, i + 1, Len(s)), c)

(***************************************************************************)
(* github.com/Masterminds/semver (v1): NewVersion and Version.Compare.     *)
(*   [v] N [.N [.N]] [-ident{.ident}] [+ident{.ident}]                     *)
(* A parsed version is [ok, major, minor, patch, pre]; build metadata does *)
(* not take part in precedence.                                            *)
(***************************************************************************)
ValidIdents(s) ==
    LET parts == Split(s, ".")
    IN \A i \in 1..Len(parts) :
          parts[i] # "" /\ AllIn(parts[i], Letters \cup Digits \cup {"-"})

NewVersion(tag) ==
    LET bad == [ok |-> FALSE, major |-> 0, minor |-> 0, patch |-> 0, pre |-> ""]
        s == IF HasPrefix(tag, "v") THEN Tail(tag) ELSE tag
        plus == Index(s, "+")
        beforeMeta == IF plus = 0 THEN s ELSE SubSeq(s, 1, plus - 1)
        meta == IF plus = 0 THEN "" ELSE SubSeq(s, plus + 1, Len(s))
        dash == Index(beforeMeta, "-")
        core == IF dash = 0 THEN beforeMeta ELSE SubSeq(beforeMeta, 1, dash - 1)
        pre == IF dash = 0 THEN "" ELSE SubSeq(beforeMeta, dash + 1, Len(beforeMeta))
        nums == Split(core, ".")
        num(i) == IF i <= Len(nums) THEN DecValue(nums[i]) ELSE 0
    IN IF /\ Len(nums) <= 3
          /\ \A i \in 1..Len(nums) : IsNumber(nums[i]) /\ FitsInt64(nums[i])
          /\ (dash # 0 => ValidIdents(pre))
          /\ (plus # 0 => ValidIdents(meta))
       THEN [ok |-> TRUE, major |-> num(1), minor |-> num(2), patch |-> num(3),
             pre |-> pre]
       ELSE bad

\* one pre-release identifier against another: numbers by value and below
\* text, text in byte order
comparePrePart(a, b) ==
    IF a = b THEN 0
    ELSE IF a = "" THEN (IF b # "" THEN -1 ELSE 1)
    ELSE IF b = "" THEN 1
    ELSE IF IsNumber(a) /\ IsNumber(b)
         THEN (IF DecValue(a) > DecValue(b) THEN 1 ELSE -1)
    ELSE IF IsNumber(a) THEN -1
    ELSE IF IsNumber(b) THEN 1
    ELSE LexCompare(a, b, AsciiOrder)

RECURSIVE comparePreParts(_, _)
comparePreParts(as, bs) ==
    IF as = <<>> /\ bs = <<>> THEN 0
    ELSE LET a == IF as = <<>> THEN "" ELSE Head(as)
             b == IF bs = <<>> THEN "" ELSE Head(bs)
             d == comparePrePart(a, b)
         IN IF d # 0 THEN d
            ELSE comparePreParts(IF as = <<>> THEN <<>> ELSE Tail(as),
                                 IF bs = <<>> THEN <<>> ELSE Tail(bs))

comparePrerelease(p, q) ==
    IF p = q THEN 0
    ELSE IF p = "" THEN 1
    ELSE IF q = "" THEN -1
    ELSE comparePreParts(Split(p, "."), Split(q, "."))

Compare(v, o) ==
    IF v.major # o.major THEN (IF v.major > o.major THEN 1 ELSE -1)
    ELSE IF v.minor # o.minor THEN (IF v.minor > o.minor THEN 1 ELSE -1)
    ELSE IF v.patch # o.patch THEN (IF v.patch > o.patch THEN 1 ELSE -1)
    ELSE comparePrerelease(v.pre, o.pre)

GreaterThan(v, o) == Compare(v, o) > 0

(***************************************************************************)
(* getLastGitTag: the scan loop over the lines of `git tag`.               *)
(***************************************************************************)
\* a plausible slip: >= for >, so a later tag of equal version replaces the
\* earlier one
keepTagLast(cur, found, maxVer) == ~found \/ Compare(cur, maxVer) >= 0

keepTag(cur, found, maxVer) == ~found \/ GreaterThan(cur, maxVer)

RECURSIVE scanTags(_, _, _, _)
scanTags(tags, found, maxVer, maxVerAsIs) ==
    IF tags = <<>> THEN maxVerAsIs
    ELSE LET curVer == NewVersion(Head(tags))
         IN IF ~curVer.ok THEN scanTags(Tail(tags), found, maxVer, maxVerAsIs)
            ELSE IF keepTag(curVer, found, maxVer)
                 THEN scanTags(Tail(tags), TRUE, curVer, Head(tags))
            ELSE scanTags(Tail(tags), found, maxVer, maxVerAsIs)

\* given the outcome [ok, lines] of `git tag`: the tag and the error
getLastGitTag(git) ==
    IF ~git.ok THEN [tag |-> "", err |-> "can't get git tag list"]
    ELSE [tag |-> scanTags(git.lines, FALSE, NewVersion(""), ""), err |-> ""]

(***************************************************************************)
(* title(): runes are code points.  The rune set covers a lower-case and   *)
(* an upper-case ASCII letter, a caseless digit, white space, and the      *)
(* digraph family U+01C4 (upper) / U+01C5 (title) / U+01C6 (lower).        *)
(***************************************************************************)
IsSpace(r) == r \in {9, 10, 11, 12, 13, 32, 133, 160}

IsTitle(r) == r \in {453, 456, 459, 498}

ToTitle(r) ==
    IF r \in 97..122 THEN r - 32
    ELSE IF r \in 452..454 THEN 453
    ELSE IF r \in 455..457 THEN 456
    ELSE IF r \in 458..460 THEN 459
    ELSE IF r \in 497..499 THEN 498
    ELSE r

RECURSIVE TrimLeft(_)
TrimLeft(s) == IF s # <<>> /\ IsSpace(Head(s)) THEN TrimLeft(Tail(s)) ELSE s

RECURSIVE TrimRight(_)
TrimRight(s) ==
    IF s # <<>> /\ IsSpace(s[Len(s)]) THEN TrimRight(SubSeq(s, 1, Len(s) - 1)) ELSE s

TrimSpace(s) == TrimRight(TrimLeft(s))

\* a plausible slip: the whole string, not s[size:], is appended to the new rune
titleKeepsFirst(s, v) ==
    LET t == IF v = "prlist" THEN TrimSpace(s) ELSE s
    IN IF Len(t) = 0 THEN <<>>
       ELSE IF IsTitle(Head(t)) THEN t
       ELSE <<ToTitle(Head(t))>> \o t

title(s, v) ==
    LET t == IF v = "prlist" THEN TrimSpace(s) ELSE s
    IN IF Len(t) = 0 THEN <<>>
       ELSE IF IsTitle(Head(t)) THEN t
       ELSE <<ToTitle(Head(t))>> \o Tail(t)

(***************************************************************************)
(* Tag-delta getGitMerges (src/main.go): the scan loop over the lines of   *)
(* `git log --merges --pretty=format:%H --- %an --- %aE --- %s`.           *)
(***************************************************************************)
\* strings.SplitN(s, sep, n)
RECURSIVE SplitN(_, _, _)
SplitN(s, sep, n) ==
    LET i == Index(s, sep)
    IN IF n <= 1 \/ i = 0 THEN <<s>>
       ELSE <<SubSeq(s, 1, i - 1)>> \o SplitN(SubSeq(s, i + Len(sep), Len(s)), sep, n - 1)

\* length of the longest run of digits at the start of s
RECURSIVE DigitRun(_)
DigitRun(s) == IF s # "" /\ CharAt(s, 1) \in Digits THEN 1 + DigitRun(Tail(s)) ELSE 0

MergePrefix == "Merge pull request #"

\* mergeRegexp = ^Merge pull request #(\d+) : the text of group 1, "" when
\* the expression does not match
mergeRegexpGroup(mergeText) ==
    IF HasPrefix(mergeText, MergePrefix)
    THEN LET after == SubSeq(mergeText, Len(MergePrefix) + 1, Len(mergeText))
         IN SubSeq(after, 1, DigitRun(after))
    ELSE ""

\* a plausible slip: the author name is read from the e-mail column
mergeOfLineEmail(line, mergeNumber) ==
    [CommitHash |-> line[1], UserName |-> line[3], UserProfileUrl |-> "",
     UserEmail |-> line[3], MergeNum |-> mergeNumber, MergeUrl |-> "",
     Title |-> <<>>]

mergeOfLine(line, mergeNumber) ==
    [CommitHash |-> line[1], UserName |-> line[2], UserProfileUrl |-> "",
     UserEmail |-> line[3], MergeNum |-> mergeNumber, MergeUrl |-> "",
     Title |-> <<>>]

\* one iteration of the loop: the entries it appends (none or one)
parseMergeLine(text) ==
    LET line == SplitN(text, " --- ", 4)
        digits == mergeRegexpGroup(line[4])
    IN IF Len(line) # 4 THEN <<>>
       ELSE IF digits = "" THEN <<>>
       ELSE IF ~FitsInt64(digits) THEN <<>>        \* strconv.Atoi: out of range
       ELSE <<mergeOfLine(line, DecValue(digits))>>

RECURSIVE parseMergeLines(_)
parseMergeLines(lines) ==
    IF lines = <<>> THEN <<>>
    ELSE parseMergeLine(Head(lines)) \o parseMergeLines(Tail(lines))

\* sort.Slice(merges, MergeNum descending): not stable, so every ordering
\* of the same entries that is descending in MergeNum is a possible result
Descending(ms) == \A i \in 1..(Len(ms) - 1) : ms[i].MergeNum >= ms[i + 1].MergeNum

IndexPermutations(n) == {p \in [1..n -> 1..n] : \A i, j \in 1..n : p[i] = p[j] => i = j}

sortSlice(ms) ==
    {q \in {[i \in 1..Len(ms) |-> ms[p[i]]] : p \in IndexPermutations(Len(ms))} :
        Descending(q)}

(***************************************************************************)
(* githubAPI: the error it returns for an outcome ("" is nil).             *)
(***************************************************************************)
\* a plausible slip: the error of json Decode is dropped
githubAPIIgnoresDecode(resp) ==
    IF resp.kind = "transport" THEN "can't get response" ELSE ""

githubAPI(resp) ==
    IF resp.kind = "transport" THEN "can't get response"
    ELSE IF resp.kind = "undecodable" THEN "can't parse response " \o resp.body
    ELSE ""

(***************************************************************************)
(* populateMergeWithInfo (src/main.go): one iteration of its loop, given   *)
(* the outcome of githubAPI("commits/<sha>/pulls"):                        *)
(*   [kind |-> "ok", pulls |-> <<...>>]  the body decoded                  *)
(*   [kind |-> "undecodable", ...]       json Decode failed                *)
(*   [kind |-> "transport", ...]         no response was read              *)
(***************************************************************************)
\* a plausible slip: the state test is dropped, the first result is taken
firstClosedAny(pulls, j) == IF j > Len(pulls) THEN 0 ELSE j

RECURSIVE firstClosed(_, _)
firstClosed(pulls, j) ==
    IF j > Len(pulls) THEN 0
    ELSE IF pulls[j].State # "closed" THEN firstClosed(pulls, j + 1)
    ELSE j

populateOne(m, resp) ==
    IF githubAPI(resp) # "" THEN m              \* logged, continue
    ELSE LET j == firstClosed(resp.pulls, 1)
         IN IF j = 0 THEN m
            ELSE [m EXCEPT !.MergeNum = resp.pulls[j].Number,
                           !.MergeUrl = resp.pulls[j].Url,
                           !.Title = title(resp.pulls[j].Title, "tagdelta"),
                           !.UserName = resp.pulls[j].Login,
                           !.UserProfileUrl = resp.pulls[j].UserUrl]

(***************************************************************************)
(* Closed-PR-list getGitMerges (src/unnamed/part_000): the loop over the   *)
(* decoded pulls listing.                                                  *)
(***************************************************************************)
mergeOfPull(pi) ==
    [CommitHash |-> pi.MergeCommitSHA, UserName |-> pi.Login,
     UserProfileUrl |-> pi.UserUrl, MergeNum |-> pi.Number, MergeUrl |-> pi.Url,
     Title |-> title(pi.Title, "prlist")]

\* a plausible slip: the test on merged_at is inverted
keepPullUnmerged(pi) == pi.MergedAt = ""

keepPull(pi) == pi.MergedAt # ""

RECURSIVE collectMerged(_)
collectMerged(pullsInfo) ==
    IF pullsInfo = <<>> THEN <<>>
    ELSE (IF keepPull(Head(pullsInfo)) THEN <<mergeOfPull(Head(pullsInfo))>> ELSE <<>>)
         \o collectMerged(Tail(pullsInfo))

(***************************************************************************)
(* generateChangelogSection: the fields the template prints.               *)
(***************************************************************************)
NewTagPlaceholder == "NEW_TAG_HERE"

renderEntry(m) ==
    [Title |-> m.Title, MergeNum |-> m.MergeNum, MergeUrl |-> m.MergeUrl,
     UserName |-> m.UserName, UserProfileUrl |-> m.UserProfileUrl]

generateChangelogSection(ms) ==
    [Tag |-> NewTagPlaceholder, Merges |-> [i \in 1..Len(ms) |-> renderEntry(ms[i])]]

(***************************************************************************)
(* The environment: what the git subprocesses and the REST API may answer. *)
(***************************************************************************)
\* all sequences over S of length at most n
SeqsUpTo(S, n) == UNION {[1..k -> S] : k \in 0..n}

GitFailure == [ok |-> FALSE, out |-> "", lines |-> <<>>]
GitOut(text) == [ok |-> TRUE, out |-> text, lines |-> <<>>]
GitLines(ls) == [ok |-> TRUE, out |-> "", lines |-> ls]

SshOrigin(org, repo) == "git@github.com:" \o org \o "/" \o repo \o ".git"
HttpsOrigin(org, repo) == "https://github.com/" \o org \o "/" \o repo \o ".git"

OriginOutcomes ==
    {GitFailure} \cup
    {GitOut(o) : o \in {SshOrigin("org", "repo"), HttpsOrigin("org", "repo"),
                        "https://gitlab.com/org/repo.git",
                        "https://github.com/org",
                        "https://github.com"}}

BranchNames == {"main", "master"}

TagSamples == {"not-a-version", "1.2.0", "v1.2", "1.10.0", "1.9.3", "1.10.0-rc.1"}

TagOutcomes(n) == {GitFailure} \cup {GitLines(ls) : ls \in SeqsUpTo(TagSamples, n)}

LogSamples ==
    {"c1 --- alice --- a@x.io --- Merge pull request #3 from alice/fix",
     "c2 --- bob --- b@x.io --- Merge pull request #10 from bob/feature",
     "c3 --- carol --- c@x.io --- Merge pull request #3 --- tidy up",
     "c4 --- dave --- Merge pull request #4 from dave/short",
     "c5 --- erin --- e@x.io --- Merge branch 'main' into dev",
     "c6 --- frank --- f@x.io --- Merge pull request #99999999999999999999 from frank/big"}

LogOutcomes(n) == {GitFailure} \cup {GitLines(ls) : ls \in SeqsUpTo(LogSamples, n)}

\* an element of a commits/<sha>/pulls answer
Pull(number, state, url, ttl, login) ==
    [Number |-> number, State |-> state, Url |-> url, Title |-> ttl,
     Login |-> login, UserUrl |-> "https://github.com/" \o login]

Open5 == Pull(5, "open", "https://github.com/org/repo/pull/5", <<97, 32, 98>>, "erin")
Closed7 == Pull(7, "closed", "https://github.com/org/repo/pull/7", <<102, 105, 120>>, "gina")
Closed20 == Pull(20, "closed", "https://github.com/org/repo/pull/20", <<65, 100, 100>>, "hal")

ApiOk(pulls) == [kind |-> "ok", body |-> "[...]", pulls |-> pulls]
ApiUndecodable == [kind |-> "undecodable", body |-> "{\"message\":\"Not Found\"}", pulls |-> <<>>]
ApiTransport == [kind |-> "transport", body |-> "", pulls |-> <<>>]

CommitPullsOutcomes ==
    {ApiUndecodable, ApiTransport} \cup
    {ApiOk(ps) : ps \in {<<>>, <<Open5>>, <<Closed7>>, <<Open5, Closed20>>,
                         <<Closed20, Closed7>>}}

\* an element of the pulls?state=closed listing
ListedPull(number, mergedAt, ttl, login, sha) ==
    [Number |-> number, State |-> "closed",
     Url |-> "https://github.com/org/repo/pull/" \o sha, Title |-> ttl,
     Login |-> login, UserUrl |-> "https://github.com/" \o login,
     MergeCommitSHA |-> sha, MergedAt |-> mergedAt]

ListedSamples ==
    {ListedPull(42, "2021-03-04T05:06:07Z", <<102, 105, 120>>, "alice", "c42"),
     ListedPull(41, "", <<119, 105, 112>>, "bob", "c41"),
     ListedPull(7, "2021-01-01T00:00:00Z", <<32, 97>>, "carol", "c7"),
     ListedPull(50, "", <<>>, "dave", "")}

PullsOutcomes(n) ==
    {ApiUndecodable, ApiTransport} \cup {ApiOk(ps) : ps \in SeqsUpTo(ListedSamples, n)}

GitCall(args) == [kind |-> "git", args |-> args, url |-> ""]
HttpCall(url) == [kind |-> "http", args |-> <<>>, url |-> url]

(***************************************************************************)
(* Unit run of title(): the function applied twice to one input.           *)
(***************************************************************************)
TitleRunes == {97, 65, 49, 32, 454, 453}

PipeIdle ==
    /\ mainBranch = "main" /\ origin = "" /\ apiUrl = "" /\ err = ""
    /\ tagList = <<>> /\ lastTag = "" /\ logLines = <<>>
    /\ parsed = <<>> /\ sorted = <<>> /\ merges = <<>> /\ idx = 0
    /\ apiResps = <<>> /\ calls = <<>> /\ stdout = <<>> /\ exitCode = -1

TitleIdle == titleIn = <<>> /\ titleOut = <<>>

InitTitle ==
    /\ variant \in Variants
    /\ pc = "title"
    /\ PipeIdle
    /\ titleIn \in SeqsUpTo(TitleRunes, MaxTitleLen)
    /\ titleOut = <<>>

TitleApply ==
    /\ pc = "title"
    /\ Len(titleOut) < 2
    /\ titleOut' = Append(titleOut,
                          title(IF titleOut = <<>> THEN titleIn
                                ELSE titleOut[Len(titleOut)], variant))
    /\ UNCHANGED <<variant, pc, pipeVars, titleIn>>

NextTitle == TitleApply

SpecTitle == InitTitle /\ [][NextTitle]_vars

(***************************************************************************)
(* The run of main()/generate().  One action per external interaction,     *)
(* with the computation that follows it up to the next interaction.        *)
(***************************************************************************)
MaxTags == 3
MaxLines == 3
MaxPulls == 3

\* generate(): setupRepoAPIURL()
Setup(outcomes) ==
    /\ pc = "setupRepoAPIURL"
    /\ \E git \in outcomes :
          LET r == setupRepoAPIURL(variant, git, apiUrl)
          IN /\ calls' = Append(calls, GitCall(<<"config", "--get", "remote.origin.url">>))
             /\ origin' = git.out
             /\ apiUrl' = r.apiUrl
             /\ err' = IF r.err = "" THEN "" ELSE "can't get repo url: " \o r.err
             /\ pc' = IF r.err # "" THEN "fatal"
                      ELSE IF variant = "tagdelta" THEN "getLastGitTag"
                      ELSE "getGitMerges"
             \* part_000: lastTag := "unknown" takes the place of getLastGitTag()
             /\ lastTag' = IF r.err = "" /\ variant = "prlist" THEN "unknown" ELSE lastTag
    /\ UNCHANGED <<variant, mainBranch, tagList, logLines, parsed, sorted,
                   merges, idx, apiResps, stdout, exitCode, titleVars>>

\* generate() of src/main.go: getLastGitTag()
LastTag(outcomes) ==
    /\ pc = "getLastGitTag"
    /\ \E git \in outcomes :
          LET r == getLastGitTag(git)
          IN /\ calls' = Append(calls, GitCall(<<"tag">>))
             /\ tagList' = git.lines
             /\ lastTag' = r.tag
             /\ err' = IF r.err = "" THEN "" ELSE "can't get last repo tag: " \o r.err
             /\ pc' = IF r.err # "" THEN "fatal" ELSE "getGitMerges"
    /\ UNCHANGED <<variant, mainBranch, origin, apiUrl, logLines, parsed, sorted,
                   merges, idx, apiResps, stdout, exitCode, titleVars>>

\* the revision range handed to `git log`
logRange(tag, branch) == tag \o "..origin/master"

\* getGitMerges of src/main.go up to the call of populateMergeWithInfo
GitLog(outcomes) ==
    /\ pc = "getGitMerges"
    /\ variant = "tagdelta"
    /\ \E git \in outcomes :
          /\ calls' = Append(calls,
                 GitCall(<<"log", "--merges",
                           "--pretty=format:%H --- %an --- %aE --- %s",
                           logRange(lastTag, mainBranch)>>))
          /\ IF ~git.ok
             THEN /\ err' = "can't get merges from last tag: exit status"
                  /\ pc' = "fatal"
                  /\ UNCHANGED <<logLines, parsed, sorted, merges, idx>>
             ELSE /\ logLines' = git.lines
                  /\ parsed' = parseMergeLines(git.lines)
                  /\ sorted' \in sortSlice(parsed')
                  /\ merges' = sorted'
                  /\ idx' = 1
                  /\ pc' = IF Len(merges') = 0 THEN "render" ELSE "populate"
                  /\ UNCHANGED err
    /\ UNCHANGED <<variant, mainBranch, origin, apiUrl, tagList, lastTag, apiResps,
                   stdout, exitCode, titleVars>>

\* populateMergeWithInfo: one iteration, one commits/<sha>/pulls request
Populate(outcomes) ==
    /\ pc = "populate"
    /\ idx <= Len(merges)
    /\ \E resp \in outcomes :
          /\ calls' = Append(calls,
                 HttpCall(apiUrl \o "commits/" \o merges[idx].CommitHash \o "/pulls"))
          /\ apiResps' = Append(apiResps, resp)
          /\ merges' = [merges EXCEPT ![idx] = populateOne(@, resp)]
    /\ idx' = idx + 1
    /\ pc' = IF idx = Len(merges) THEN "render" ELSE "populate"
    /\ UNCHANGED <<variant, mainBranch, origin, apiUrl, err, tagList, lastTag,
                   logLines, parsed, sorted, stdout, exitCode, titleVars>>

\* getGitMerges of src/unnamed/part_000: the one pulls listing
ListPulls(outcomes) ==
    /\ pc = "getGitMerges"
    /\ variant = "prlist"
    /\ \E resp \in outcomes :
          LET e == githubAPI(resp)
          IN /\ calls' = Append(calls,
                    HttpCall(apiUrl \o
                        "pulls?state=closed&sort=updated&direction=desc&per_page=100"))
             /\ apiResps' = Append(apiResps, resp)
             /\ IF e # ""
                THEN /\ err' = "can't get merges from last tag \"unknown\": "
                               \o "get pulls from githubAPI: " \o e
                     /\ pc' = "fatal"
                     /\ UNCHANGED merges
                ELSE /\ merges' = collectMerged(resp.pulls)
                     /\ pc' = "render"
                     /\ UNCHANGED err
    /\ UNCHANGED <<variant, mainBranch, origin, apiUrl, tagList, lastTag, logLines,
                   parsed, sorted, idx, stdout, exitCode, titleVars>>

\* generateChangelogSection, then main(): fmt.Println(changelog)
Render ==
    /\ pc = "render"
    /\ stdout' = generateChangelogSection(merges)
    /\ exitCode' = 0
    /\ pc' = "done"
    /\ UNCHANGED <<variant, mainBranch, origin, apiUrl, err, tagList, lastTag,
                   logLines, parsed, sorted, merges, idx, apiResps, calls, titleVars>>

\* main(): log.Fatalln(err)
Fatal ==
    /\ pc = "fatal"
    /\ exitCode' = 1
    /\ pc' = "done"
    /\ UNCHANGED <<variant, mainBranch, origin, apiUrl, err, tagList, lastTag,
                   logLines, parsed, sorted, merges, idx, apiResps, calls, stdout,
                   titleVars>>

(***************************************************************************)
(* Spec: a whole run of either program.                                    *)
(***************************************************************************)
Init ==
    /\ variant \in Variants
    /\ pc = "setupRepoAPIURL"
    /\ mainBranch \in BranchNames
    /\ origin = "" /\ apiUrl = "" /\ err = ""
    /\ tagList = <<>> /\ lastTag = "" /\ logLines = <<>>
    /\ parsed = <<>> /\ sorted = <<>> /\ merges = <<>> /\ idx = 0
    /\ apiResps = <<>> /\ calls = <<>> /\ stdout = <<>> /\ exitCode = -1
    /\ TitleIdle

RunTagOutcomes ==
    {GitFailure, GitLines(<<>>), GitLines(<<"not-a-version", "1.2.0">>)}

RunLogOutcomes ==
    {GitFailure} \cup {GitLines(ls) : ls \in SeqsUpTo(LogSamples, 1)} \cup
    {GitLines(<<"c1 --- alice --- a@x.io --- Merge pull request #3 from alice/fix",
                "c2 --- bob --- b@x.io --- Merge pull request #10 from bob/feature">>)}

RunPullsOutcomes == PullsOutcomes(1)

Next ==
    \/ Setup(OriginOutcomes)
    \/ LastTag(RunTagOutcomes)
    \/ GitLog(RunLogOutcomes)
    \/ Populate(CommitPullsOutcomes)
    \/ ListPulls(RunPullsOutcomes)
    \/ Render
    \/ Fatal

Spec == Init /\ [][Next]_vars

(***************************************************************************)
(* The state generate() is in once setupRepoAPIURL has succeeded.          *)
(***************************************************************************)
AfterSetup ==
    /\ mainBranch \in BranchNames
    /\ origin = HttpsOrigin("org", "repo")
    /\ apiUrl = "https://api.github.com/repos/org/repo/"
    /\ err = ""
    /\ calls = <<GitCall(<<"config", "--get", "remote.origin.url">>)>>
    /\ logLines = <<>> /\ parsed = <<>> /\ sorted = <<>> /\ merges = <<>> /\ idx = 0
    /\ apiResps = <<>> /\ stdout = <<>> /\ exitCode = -1
    /\ TitleIdle

(***************************************************************************)
(* SpecTags: getLastGitTag on every tag list within the bound.             *)
(***************************************************************************)
InitTags ==
    /\ variant = "tagdelta"
    /\ pc = "getLastGitTag"
    /\ AfterSetup
    /\ tagList = <<>> /\ lastTag = ""

BoundedTagOutcomes == TagOutcomes(MaxTags)

NextTags == LastTag(BoundedTagOutcomes)

SpecTags == InitTags /\ [][NextTags]_vars

(***************************************************************************)
(* SpecMerges: getGitMerges of src/main.go on every merge log within the   *)
(* bound, to the end of the run.                                           *)
(***************************************************************************)
InitMerges ==
    /\ variant = "tagdelta"
    /\ pc = "getGitMerges"
    /\ AfterSetup
    /\ tagList = <<"1.2.0">> /\ lastTag = "1.2.0"

BoundedLogOutcomes == LogOutcomes(MaxLines)

NextMerges ==
    \/ GitLog(BoundedLogOutcomes)
    \/ Populate(CommitPullsOutcomes)
    \/ Render
    \/ Fatal

SpecMerges == InitMerges /\ [][NextMerges]_vars

(***************************************************************************)
(* SpecPulls: getGitMerges of src/unnamed/part_000 on every listing within *)
(* the bound, to the end of the run.                                       *)
(***************************************************************************)
InitPulls ==
    /\ variant = "prlist"
    /\ pc = "getGitMerges"
    /\ AfterSetup
    /\ tagList = <<>> /\ lastTag = "unknown"

BoundedPullsOutcomes == PullsOutcomes(MaxPulls)

NextPulls ==
    \/ ListPulls(BoundedPullsOutcomes)
    \/ Render
    \/ Fatal

SpecPulls == InitPulls /\ [][NextPulls]_vars

(***************************************************************************)
(* Claims.                                                                 *)
(***************************************************************************)
\* the positions of tagList that parse as semantic versions
ParsingTags == {i \in 1..Len(tagList) : NewVersion(tagList[i]).ok}

\* the first position holding a version no other parsing tag exceeds
FirstMaximalTag ==
    CHOOSE i \in ParsingTags :
        /\ \A j \in ParsingTags : Compare(NewVersion(tagList[j]), NewVersion(tagList[i])) <= 0
        /\ \A j \in ParsingTags :
              j < i => Compare(NewVersion(tagList[j]), NewVersion(tagList[i])) < 0

\* `git tag` was the last subprocess run
TagsRan == pc # "getLastGitTag" /\ calls # <<>> /\ calls[Len(calls)].args = <<"tag">>

\* C7: getLastGitTag returns the original text of the first listed tag whose
\* semantic version is maximal among the tags that parse; a tag that does not
\* parse is skipped and causes no error; when no tag parses the result is the
\* empty string, with no error.
C7_LastTagIsFirstMaximal ==
    TagsRan =>
        /\ (tagList # <<>> => err = "" /\ pc = "getGitMerges")
        /\ (err = "" /\ ParsingTags = {} => lastTag = "")
        /\ (err = "" /\ ParsingTags # {} => lastTag = tagList[FirstMaximalTag])

\* an unparsable tag first, then two spellings of the maximal version: the
\* first spelling is returned
C7_Witness ==
    /\ TagsRan
    /\ tagList = <<"not-a-version", "v1.2", "1.2.0">>
    /\ lastTag = "v1.2"
    /\ err = ""

\* C9: title is idempotent in both variants, title(title(s)) = title(s), and
\* the title of the empty string is the empty string.
C9_TitleIdempotent ==
    /\ (Len(titleOut) = 2 => titleOut[2] = titleOut[1])
    /\ (Len(titleOut) >= 1 /\ titleIn = <<>> => titleOut[1] = <<>>)

\* a run in which the first application changed its input (trimmed and
\* title-cased it) and the second application has been made
C9_Witness ==
    /\ Len(titleOut) = 2
    /\ variant = "prlist"
    /\ titleIn = <<32, 97, 32>>
    /\ titleOut[1] = <<65>>

\* --- tag-delta: the scan loop of getGitMerges ------------------------------
SepPositions(text) == {i \in 1..(Len(text) - 4) : SubSeq(text, i, i + 4) = " --- "}

\* first separator at or after position `from`, 0 when there is none
SepFrom(text, from) ==
    LET later == {i \in SepPositions(text) : i >= from}
    IN IF later = {} THEN 0 ELSE CHOOSE i \in later : \A j \in later : i <= j

\* the four fields of a log line, read off the positions of its first three
\* separators
FourFields(text) ==
    LET i1 == SepFrom(text, 1)
        i2 == IF i1 = 0 THEN 0 ELSE SepFrom(text, i1 + 5)
        i3 == IF i2 = 0 THEN 0 ELSE SepFrom(text, i2 + 5)
    IN IF i3 = 0 THEN [ok |-> FALSE, hash |-> "", author |-> "", subject |-> ""]
       ELSE [ok |-> TRUE,
             hash |-> SubSeq(text, 1, i1 - 1),
             author |-> SubSeq(text, i1 + 5, i2 - 1),
             subject |-> SubSeq(text, i3 + 5, Len(text))]

\* the digits that follow "Merge pull request #" in a subject
NumberText(subject) ==
    LET after == SubSeq(subject, Len(MergePrefix) + 1, Len(subject))
        runs == {k \in 0..Len(after) : AllIn(SubSeq(after, 1, k), Digits)}
    IN SubSeq(after, 1, CHOOSE k \in runs : \A j \in runs : k >= j)

\* four fields, and a subject that starts with "Merge pull request #<digits>"
IsMergeLine(text) ==
    LET f == FourFields(text)
    IN f.ok /\ HasPrefix(f.subject, MergePrefix) /\ NumberText(f.subject) # ""

IsMergeLineInRange(text) ==
    IsMergeLine(text) /\ FitsInt64(NumberText(FourFields(text).subject))

\* `git log` was the last external call: the scan loop has run, if git did
LogRan ==
    /\ variant = "tagdelta" /\ pc # "getGitMerges"
    /\ calls # <<>> /\ calls[Len(calls)].kind = "git" /\ calls[Len(calls)].args[1] = "log"

\* the scan loop has run to its end and populateMergeWithInfo is about to be
\* called with what it produced
LogScanned == LogRan /\ err = ""

\* C10 as stated: the entries are exactly the lines with four fields whose
\* subject starts with "Merge pull request #<digits>", one entry per line with
\* its hash, author and number.
C10_Original ==
    LogScanned =>
        LET kept == SelectSeq(logLines, IsMergeLine)
        IN /\ Len(parsed) = Len(kept)
           /\ \A k \in 1..Len(kept) :
                 /\ parsed[k].CommitHash = FourFields(kept[k]).hash
                 /\ parsed[k].UserName = FourFields(kept[k]).author

\* C10 (amended): the entries are exactly the lines with four fields whose
\* subject starts with "Merge pull request #<digits>" and whose digits denote
\* a number that fits a signed 64-bit int; each yields one entry with the
\* line's hash, author and number, in log order; every other line is skipped
\* and the run goes on.
C10_EntriesAreMergeLines ==
    /\ ((LogRan /\ logLines # <<>>) => (err = "" /\ pc # "fatal" /\ exitCode # 1))
    /\ (LogScanned =>
          LET kept == SelectSeq(logLines, IsMergeLineInRange)
          IN /\ Len(parsed) = Len(kept)
             /\ \A k \in 1..Len(kept) :
                   /\ parsed[k].CommitHash = FourFields(kept[k]).hash
                   /\ parsed[k].UserName = FourFields(kept[k]).author
                   /\ parsed[k].MergeNum =
                         DecValue(NumberText(FourFields(kept[k]).subject)))

\* a three-field line and a line without the pattern around one merge line
C10_Witness ==
    /\ LogScanned
    /\ logLines = <<"c4 --- dave --- Merge pull request #4 from dave/short",
                    "c2 --- bob --- b@x.io --- Merge pull request #10 from bob/feature",
                    "c5 --- erin --- e@x.io --- Merge branch 'main' into dev">>
    /\ Len(parsed) = 1
    /\ parsed[1].CommitHash = "c2" /\ parsed[1].UserName = "bob" /\ parsed[1].MergeNum = 10

\* --- tag-delta: ordering ---------------------------------------------------
\* C1: the entries handed to the formatter are in descending order of the
\* pull-request number that is rendered.
C1_Original ==
    (variant = "tagdelta" /\ pc = "done" /\ exitCode = 0) => Descending(stdout.Merges)

\* --- tag-delta: enrichment -------------------------------------------------
ClosedPositions(pulls) == {j \in 1..Len(pulls) : pulls[j].State = "closed"}

FirstClosedPosition(pulls) ==
    CHOOSE j \in ClosedPositions(pulls) : \A k \in ClosedPositions(pulls) : j <= k

\* C6: an entry whose answer holds a closed pull request takes number, URL,
\* title, author and profile URL from the first closed one; an entry whose
\* answer holds none keeps every field; no entry is dropped, every entry gets
\* its request and the run does not abort.
C6_FirstClosedOrUnchanged ==
    (variant = "tagdelta" /\ sorted # <<>>) =>
        /\ err = ""
        /\ pc \in {"populate", "render", "done"}
        /\ Len(merges) = Len(sorted)
        /\ \A i \in 1..Len(merges) : i > Len(apiResps) => merges[i] = sorted[i]
        /\ \A i \in 1..Len(apiResps) :
              apiResps[i].kind = "ok" =>
                 LET pulls == apiResps[i].pulls
                 IN IF ClosedPositions(pulls) = {}
                    THEN merges[i] = sorted[i]
                    ELSE LET pull == pulls[FirstClosedPosition(pulls)]
                         IN /\ merges[i].MergeNum = pull.Number
                            /\ merges[i].MergeUrl = pull.Url
                            /\ merges[i].Title = title(pull.Title, "tagdelta")
                            /\ merges[i].UserName = pull.Login
                            /\ merges[i].UserProfileUrl = pull.UserUrl
                            /\ merges[i].CommitHash = sorted[i].CommitHash
        /\ (pc = "done" =>
               /\ exitCode = 0
               /\ Len(apiResps) = Len(sorted)
               /\ Len(stdout.Merges) = Len(sorted))

\* first entry: an open pull request before the closed one that is taken;
\* second entry: only an open one, the entry is rendered as the log gave it
C6_Witness ==
    /\ variant = "tagdelta" /\ pc = "done" /\ exitCode = 0
    /\ Len(apiResps) = 2
    /\ apiResps[1] = ApiOk(<<Open5, Closed20>>)
    /\ apiResps[2] = ApiOk(<<Open5>>)
    /\ stdout.Merges[1].MergeNum = 20 /\ stdout.Merges[1].UserName = "hal"
    /\ stdout.Merges[2].MergeNum = 3 /\ stdout.Merges[2].UserName = "alice"

\* --- closed-PR list --------------------------------------------------------
HasMergedAt(pi) == pi.MergedAt # ""

\* C5: the rendered entries are exactly the listed pull requests whose
\* merged_at is not empty, in the order of the listing.
C5_RenderedAreMergedInOrder ==
    (variant = "prlist" /\ pc = "done" /\ exitCode = 0) =>
        LET kept == SelectSeq(apiResps[1].pulls, HasMergedAt)
        IN /\ Len(stdout.Merges) = Len(kept)
           /\ \A k \in 1..Len(kept) :
                 /\ stdout.Merges[k].MergeNum = kept[k].Number
                 /\ stdout.Merges[k].MergeUrl = kept[k].Url
                 /\ stdout.Merges[k].UserName = kept[k].Login
                 /\ stdout.Merges[k].UserProfileUrl = kept[k].UserUrl
                 /\ stdout.Merges[k].Title = title(kept[k].Title, "prlist")

\* an unmerged pull request between two merged ones
C5_Witness ==
    /\ variant = "prlist" /\ pc = "done" /\ exitCode = 0
    /\ Len(apiResps[1].pulls) = 3
    /\ apiResps[1].pulls[1].Number = 42
    /\ apiResps[1].pulls[2].Number = 41 /\ apiResps[1].pulls[2].MergedAt = ""
    /\ apiResps[1].pulls[3].Number = 7
    /\ Len(stdout.Merges) = 2
    /\ stdout.Merges[1].MergeNum = 42 /\ stdout.Merges[2].MergeNum = 7

\* --- REST answers that do not decode ----------------------------------------
Undecodable == {i \in 1..Len(apiResps) : apiResps[i].kind = "undecodable"}

SetupRan == pc # "setupRepoAPIURL"

\* C3: both the SSH-style and the HTTPS-style remote of org/repo resolve, in
\* both variants, to https://api.github.com/repos/org/repo/.
C3_Original ==
    (SetupRan /\ origin \in {SshOrigin("org", "repo"), HttpsOrigin("org", "repo")}) =>
        /\ apiUrl = "https://api.github.com/repos/org/repo/"
        /\ ~HasPrefix(err, "can't get repo url")

\* whether a URL path is /<org>/<repo>, with or without a trailing .git
PathIsOrgRepo(path) ==
    LET segs == Split(TrimSuffix(path, ".git"), "/")
    IN Len(segs) = 3 /\ segs[1] = "" /\ segs[2] # "" /\ segs[3] # ""

\* C4: a remote whose host is not github.com, or whose path is no <org>/<repo>
\* pair, makes setupRepoAPIURL fail: apiUrl stays unset, the run aborts and
\* nothing follows the first subprocess.
C4_Original ==
    LET u == urlParse(normalizeGitUrl(origin))
    IN (SetupRan /\ (~u.ok \/ u.host # "github.com" \/ ~PathIsOrgRepo(u.path))) =>
          /\ HasPrefix(err, "can't get repo url")
          /\ apiUrl = ""
          /\ Len(calls) = 1
          /\ stdout = <<>>

\* --- the range of the merge log -----------------------------------------------
\* C8: the merge log is taken over <last tag>..<main branch>, the main branch
\* being the value of --main-branch.
C8_Original ==
    \A i \in 1..Len(calls) :
        (calls[i].kind = "git" /\ calls[i].args[1] = "log") =>
            /\ HasPrefix(calls[i].args[4], lastTag \o "..")
            /\ HasSuffix(calls[i].args[4], mainBranch)

====
